---- MODULE Spec2Model ----
(***************************************************************************)
(* The diagram-to-graph compiler of the workflow page: parseMermaidToFlow  *)
(* (line splitting, node and edge extraction by regular expressions, the   *)
(* sequential fallback, palette colours) and applyHierarchicalLayout       *)
(* (in-degrees, root choice, breadth-first levelling, level groups and     *)
(* coordinates).                                                           *)
(*                                                                         *)
(* A string is a sequence of one-character strings.  A regular expression  *)
(* is a sequence of items [cls, q, grp]: a character class, a quantifier   *)
(* ("1", "+" or "*", all greedy) and the number of the capture group that  *)
(* wraps the item (0 for none).  Matching backtracks as the JavaScript     *)
(* engine does: longest repetition first, leftmost start first.            *)
(***************************************************************************)
EXTENDS Integers, Sequences, FiniteSets, TLC

\* ------------------------------------------------------------ characters

UpperSeq ==
  <<"A","B","C","D","E","F","G","H","I","J","K","L","M",
    "N","O","P","Q","R","S","T","U","V","W","X","Y","Z">>

Upper == {UpperSeq[i] : i \in DOMAIN UpperSeq}

\* The white space of String.prototype.trim and of \s that the inputs use.
WhiteSpace == {" ", "\t"}

Ord(c) == CHOOSE i \in DOMAIN UpperSeq : UpperSeq[i] = c

\* ------------------------------------------------------- character classes

In(set)  == [neg |-> FALSE, set |-> set]
Not(set) == [neg |-> TRUE,  set |-> set]

InClass(c, cls) == IF cls.neg THEN c \notin cls.set ELSE c \in cls.set

One(cls)       == [cls |-> cls, q |-> "1", grp |-> 0]
Plus(cls)      == [cls |-> cls, q |-> "+", grp |-> 0]
Star(cls)      == [cls |-> cls, q |-> "*", grp |-> 0]
Group(g, item) == [item EXCEPT !.grp = g]

Lit(c) == One(In({c}))

\* --------------------------------------------------------- the six regexes

\* /([A-Z]+)\{\{([^}]+)\}\}/g
diamondRegex ==
  << Group(1, Plus(In(Upper))), Lit("{"), Lit("{"),
     Group(2, Plus(Not({"}"}))), Lit("}"), Lit("}") >>

\* /([A-Z]+)\[([^\]]+)\]/g
squareRegex ==
  << Group(1, Plus(In(Upper))), Lit("["),
     Group(2, Plus(Not({"]"}))), Lit("]") >>

\* /([A-Z]+)[\[{]+[^\]{}]+[\]}]+\s*-->\s*\|([^\|]+)\|\s*([A-Z]+)[\[{]+/
pattern1 ==
  << Group(1, Plus(In(Upper))), Plus(In({"[", "{"})),
     Plus(Not({"]", "{", "}"})), Plus(In({"]", "}"})),
     Star(In(WhiteSpace)), Lit("-"), Lit("-"), Lit(">"), Star(In(WhiteSpace)),
     Lit("|"), Group(2, Plus(Not({"|"}))), Lit("|"), Star(In(WhiteSpace)),
     Group(3, Plus(In(Upper))), Plus(In({"[", "{"})) >>

\* /([A-Z]+)[\[{]+[^\]{}]+[\]}]+\s*-->\s*([A-Z]+)[\[{]+/
pattern2 ==
  << Group(1, Plus(In(Upper))), Plus(In({"[", "{"})),
     Plus(Not({"]", "{", "}"})), Plus(In({"]", "}"})),
     Star(In(WhiteSpace)), Lit("-"), Lit("-"), Lit(">"), Star(In(WhiteSpace)),
     Group(2, Plus(In(Upper))), Plus(In({"[", "{"})) >>

\* /([A-Z]+)\s+-->\s+([A-Z]+)[\[{]/
pattern3 ==
  << Group(1, Plus(In(Upper))), Plus(In(WhiteSpace)),
     Lit("-"), Lit("-"), Lit(">"), Plus(In(WhiteSpace)),
     Group(2, Plus(In(Upper))), One(In({"[", "{"})) >>

\* /([A-Z]+)\s*-->\s*([A-Z]+)/
pattern4 ==
  << Group(1, Plus(In(Upper))), Star(In(WhiteSpace)),
     Lit("-"), Lit("-"), Lit(">"), Star(In(WhiteSpace)),
     Group(2, Plus(In(Upper))) >>

\* ------------------------------------------------------------ the matcher

NoCaps == <<<<>>, <<>>, <<>>>>

NoMatch == [ok |-> FALSE, start |-> 0, end |-> 0, caps |-> NoCaps]

RECURSIVE RunLen(_, _, _)
\* The number of consecutive characters of s from pos on that are in cls.
RunLen(s, pos, cls) ==
  IF pos > Len(s) \/ ~InClass(s[pos], cls) THEN 0
  ELSE 1 + RunLen(s, pos + 1, cls)

RECURSIVE MatchFrom(_, _, _, _, _)
RECURSIVE TryLens(_, _, _, _, _, _, _)

\* Items k.. of re against s from pos on; caps are the captures so far.
MatchFrom(s, re, k, pos, caps) ==
  IF k > Len(re) THEN [ok |-> TRUE, start |-> 0, end |-> pos, caps |-> caps]
  ELSE LET run == RunLen(s, pos, re[k].cls)
           hi  == IF re[k].q = "1" THEN (IF run >= 1 THEN 1 ELSE 0) ELSE run
           lo  == IF re[k].q = "*" THEN 0 ELSE 1
       IN  TryLens(s, re, k, pos, caps, hi, lo)

\* Item k taking n characters, then n-1, ... down to lo: greedy backtracking.
TryLens(s, re, k, pos, caps, n, lo) ==
  IF n < lo THEN NoMatch
  ELSE LET g  == re[k].grp
           c2 == IF g > 0 THEN [caps EXCEPT ![g] = SubSeq(s, pos, pos + n - 1)]
                 ELSE caps
           r  == MatchFrom(s, re, k + 1, pos + n, c2)
       IN  IF r.ok THEN r ELSE TryLens(s, re, k, pos, caps, n - 1, lo)

RECURSIVE Exec(_, _, _)
\* RegExp exec from index `from`: the leftmost match, or NoMatch.
Exec(s, re, from) ==
  IF from > Len(s) THEN NoMatch
  ELSE LET r == MatchFrom(s, re, 1, from, NoCaps)
       IN  IF r.ok THEN [r EXCEPT !.start = from] ELSE Exec(s, re, from + 1)

\* String.prototype.match without the g flag.
Match(s, re) == Exec(s, re, 1)

RECURSIVE MatchAllFrom(_, _, _)
MatchAllFrom(s, re, from) ==
  LET r == Exec(s, re, from)
  IN  IF ~r.ok THEN <<>>
      ELSE <<r>> \o MatchAllFrom(s, re, IF r.end > r.start THEN r.end ELSE r.end + 1)

\* String.prototype.matchAll with a g regex: the successive matches.
MatchAll(s, re) == MatchAllFrom(s, re, 1)

\* --------------------------------------------------------- string helpers

RECURSIVE TrimStart(_)
TrimStart(s) ==
  IF s # <<>> /\ Head(s) \in WhiteSpace THEN TrimStart(Tail(s)) ELSE s

RECURSIVE TrimEnd(_)
TrimEnd(s) ==
  IF s # <<>> /\ s[Len(s)] \in WhiteSpace THEN TrimEnd(SubSeq(s, 1, Len(s) - 1))
  ELSE s

Trim(s) == TrimEnd(TrimStart(s))

StartsWith(s, p) == Len(s) >= Len(p) /\ SubSeq(s, 1, Len(p)) = p

RECURSIVE SplitFrom(_, _, _)
\* split('\n'): cur is the piece being collected.
SplitFrom(s, i, cur) ==
  IF i > Len(s) THEN <<cur>>
  ELSE IF s[i] = "\n" THEN <<cur>> \o SplitFrom(s, i + 1, <<>>)
  ELSE SplitFrom(s, i + 1, Append(cur, s[i]))

Split(s) == SplitFrom(s, 1, <<>>)

flowchart == <<"f","l","o","w","c","h","a","r","t">>

KeepLine(line) == Trim(line) # <<>> /\ ~StartsWith(Trim(line), flowchart)

RECURSIVE Filter(_)
Filter(ls) ==
  IF ls = <<>> THEN <<>>
  ELSE IF KeepLine(Head(ls)) THEN <<Head(ls)>> \o Filter(Tail(ls))
  ELSE Filter(Tail(ls))

\* mermaidCode.split('\n').filter(...)
SourceLines(code) == Filter(Split(code))

\* ------------------------------------------------------- node extraction

\* The value of an edge label that no pattern set (JavaScript's undefined).
Undefined == <<"undefined">>

\* nodeMap.has(id); nodeMap is kept in insertion order, as a JavaScript Map.
Has(map, id) == \E i \in DOMAIN map : map[i].id = id

RECURSIVE AddMatches(_, _, _)
\* matches.forEach(match => { if (!nodeMap.has(id)) nodeMap.set(id, ...) })
AddMatches(map, ms, isDiamond) ==
  IF ms = <<>> THEN map
  ELSE LET id    == Head(ms).caps[1]
           label == Trim(Head(ms).caps[2])
       IN  AddMatches(IF Has(map, id) THEN map
                      ELSE Append(map, [id |-> id, label |-> label,
                                        isDiamond |-> isDiamond]),
                      Tail(ms), isDiamond)

\* An extraction that stops at the first match of each shape on a line.
ExtractNodesFirstMatch(map, trimmedLine) ==
  LET first(ms) == SubSeq(ms, 1, IF ms = <<>> THEN 0 ELSE 1)
  IN  AddMatches(AddMatches(map, first(MatchAll(trimmedLine, diamondRegex)), TRUE),
                 first(MatchAll(trimmedLine, squareRegex)), FALSE)

\* The node declarations of one line: every diamond match, then every
\* square match.
ExtractNodes(map, trimmedLine) ==
  AddMatches(AddMatches(map, MatchAll(trimmedLine, diamondRegex), TRUE),
             MatchAll(trimmedLine, squareRegex), FALSE)

RECURSIVE PushNew(_, _, _)
\* nodeOrder.push(id) for the entries of `map` after the first `known` ones.
PushNew(order, map, known) ==
  IF known >= Len(map) THEN order
  ELSE PushNew(Append(order, map[known + 1].id), map, known + 1)

\* ------------------------------------------------------- edge extraction

Edge(s, t, l) == [source |-> s, target |-> t, label |-> l]

\* EdgeOfLine with the patterns tried from the loosest to the strictest.
EdgeOfLineWeakestFirst(trimmedLine) ==
  LET m1 == Match(trimmedLine, pattern1)
      m2 == Match(trimmedLine, pattern2)
      m3 == Match(trimmedLine, pattern3)
      m4 == Match(trimmedLine, pattern4)
  IN  IF m4.ok THEN <<Edge(Trim(m4.caps[1]), Trim(m4.caps[2]), Undefined)>>
      ELSE IF m3.ok THEN <<Edge(Trim(m3.caps[1]), Trim(m3.caps[2]), Undefined)>>
      ELSE IF m2.ok THEN <<Edge(Trim(m2.caps[1]), Trim(m2.caps[2]), Undefined)>>
      ELSE IF m1.ok
        THEN <<Edge(Trim(m1.caps[1]), Trim(m1.caps[3]), Trim(m1.caps[2]))>>
      ELSE <<>>

\* The edge that the line pushes on edgeList, as a sequence of length 0 or 1:
\* the four patterns in turn, each returning from the callback when it matches.
EdgeOfLine(trimmedLine) ==
  LET m1 == Match(trimmedLine, pattern1)
      m2 == Match(trimmedLine, pattern2)
      m3 == Match(trimmedLine, pattern3)
      m4 == Match(trimmedLine, pattern4)
  IN  IF m1.ok
        THEN <<Edge(Trim(m1.caps[1]), Trim(m1.caps[3]), Trim(m1.caps[2]))>>
      ELSE IF m2.ok THEN <<Edge(Trim(m2.caps[1]), Trim(m2.caps[2]), Undefined)>>
      ELSE IF m3.ok THEN <<Edge(Trim(m3.caps[1]), Trim(m3.caps[2]), Undefined)>>
      ELSE IF m4.ok THEN <<Edge(Trim(m4.caps[1]), Trim(m4.caps[2]), Undefined)>>
      ELSE <<>>

\* --------------------------------------------------------------- fallback

\* for (i = 0; i < nodeOrder.length - 1; i++) push {nodeOrder[i], nodeOrder[i+1]}
SequentialEdges(order) ==
  [i \in 1..(IF Len(order) = 0 THEN 0 ELSE Len(order) - 1)
     |-> Edge(order[i], order[i + 1], Undefined)]

\* Fallback without the test for an empty edge list.
FallbackAlways(edges, order) ==
  IF Len(order) > 1 THEN edges \o SequentialEdges(order) ELSE edges

\* Fallback with the loop stopping one pair early.
FallbackSkipsLast(edges, order) ==
  IF Len(edges) = 0 /\ Len(order) > 1
    THEN SequentialEdges(SubSeq(order, 1, Len(order) - 1))
    ELSE edges

\* if (edgeList.length === 0 && nodeOrder.length > 1) { ... }
Fallback(edges, order) ==
  IF Len(edges) = 0 /\ Len(order) > 1 THEN edges \o SequentialEdges(order)
  ELSE edges

\* ------------------------------------------------- React Flow nodes, edges

NODE_COLORS ==
  << [bg |-> "#fef08a", border |-> "#facc15", text |-> "#713f12"],
     [bg |-> "#86efac", border |-> "#4ade80", text |-> "#14532d"],
     [bg |-> "#93c5fd", border |-> "#3b82f6", text |-> "#1e3a8a"],
     [bg |-> "#fda4af", border |-> "#f43f5e", text |-> "#881337"],
     [bg |-> "#c4b5fd", border |-> "#8b5cf6", text |-> "#4c1d95"],
     [bg |-> "#fed7aa", border |-> "#fb923c", text |-> "#7c2d12"],
     [bg |-> "#a5f3fc", border |-> "#06b6d4", text |-> "#164e63"],
     [bg |-> "#fbbf24", border |-> "#f59e0b", text |-> "#78350f"] >>

\* Nodes whose colour follows the shape: decision nodes take the first entry.
FlowNodesColourByShape(map) ==
  [i \in DOMAIN map |->
     [id |-> map[i].id, label |-> map[i].label, isDiamond |-> map[i].isDiamond,
      color |-> IF map[i].isDiamond THEN NODE_COLORS[1]
                ELSE NODE_COLORS[((i - 1) % Len(NODE_COLORS)) + 1],
      x |-> 0, y |-> 0]]

\* nodeMap.forEach((data, id) => flowNodes.push(...)), colorIndex counting
\* from 0; the position is {x: 0, y: 0} until the layout.
FlowNodes(map) ==
  [i \in DOMAIN map |->
     [id |-> map[i].id, label |-> map[i].label, isDiamond |-> map[i].isDiamond,
      color |-> NODE_COLORS[((i - 1) % Len(NODE_COLORS)) + 1],
      x |-> 0, y |-> 0]]

\* Edges with each repeated (source, target) pair dropped after its first.
FlowEdgesDeduplicated(edges) ==
  LET first(i) == \A j \in 1..(i - 1) :
                    edges[j].source # edges[i].source \/ edges[j].target # edges[i].target
      kept     == SelectSeq([i \in DOMAIN edges |-> i], first)
  IN  [n \in DOMAIN kept |->
         [id |-> n - 1, source |-> edges[kept[n]].source,
          target |-> edges[kept[n]].target, label |-> edges[kept[n]].label]]

\* Edges built without their labels.
FlowEdgesUnlabelled(edges) ==
  [i \in DOMAIN edges |->
     [id |-> i - 1, source |-> edges[i].source, target |-> edges[i].target,
      label |-> Undefined]]

\* edgeList.map((edge, idx) => ({id: `e${idx}`, ...}))
FlowEdges(edges) ==
  [i \in DOMAIN edges |->
     [id |-> i - 1, source |-> edges[i].source, target |-> edges[i].target,
      label |-> edges[i].label]]

\* ----------------------------------------------------------------- layout

RECURSIVE localeCompare(_, _)
\* a.localeCompare(b) on identifiers of capital letters: -1, 0 or 1.
localeCompare(a, b) ==
  IF a = <<>> /\ b = <<>> THEN 0
  ELSE IF a = <<>> THEN -1
  ELSE IF b = <<>> THEN 1
  ELSE IF Ord(Head(a)) < Ord(Head(b)) THEN -1
  ELSE IF Ord(Head(a)) > Ord(Head(b)) THEN 1
  ELSE localeCompare(Tail(a), Tail(b))

RECURSIVE Insert(_, _)
Insert(sorted, id) ==
  IF sorted = <<>> THEN <<id>>
  ELSE IF localeCompare(id, Head(sorted)) < 0 THEN <<id>> \o sorted
  ELSE <<Head(sorted)>> \o Insert(Tail(sorted), id)

RECURSIVE Sort(_)
\* Array.prototype.sort on identifiers, ascending (the sort is stable).
Sort(ids) ==
  IF ids = <<>> THEN <<>> ELSE Insert(Sort(SubSeq(ids, 1, Len(ids) - 1)), ids[Len(ids)])

RECURSIVE SetToSeq(_)
SetToSeq(S) ==
  IF S = {} THEN <<>> ELSE LET x == CHOOSE y \in S : TRUE IN <<x>> \o SetToSeq(S \ {x})

Ids(nodes) == [i \in DOMAIN nodes |-> nodes[i].id]

Range(f) == {f[x] : x \in DOMAIN f}

RECURSIVE CountIncoming(_, _)
\* edges.forEach(e => incomingCount.set(e.target, (incomingCount.get(e.target) || 0) + 1))
CountIncoming(cnt, edges) ==
  IF edges = <<>> THEN cnt
  ELSE LET t   == Head(edges).target
           old == IF t \in DOMAIN cnt THEN cnt[t] ELSE 0
       IN  CountIncoming([x \in DOMAIN cnt \cup {t} |-> IF x = t THEN old + 1 ELSE cnt[x]],
                         Tail(edges))

\* nodes.forEach(n => incomingCount.set(n.id, 0)) and then the edges
IncomingCount(nodes, edges) ==
  CountIncoming([x \in Range(Ids(nodes)) |-> 0], edges)

RECURSIVE SelectIds(_, _)
\* The ids of the nodes whose incoming count is 0, in the order of `nodes`.
SelectIds(ids, cnt) ==
  IF ids = <<>> THEN <<>>
  ELSE IF cnt[Head(ids)] = 0 THEN <<Head(ids)>> \o SelectIds(Tail(ids), cnt)
  ELSE SelectIds(Tail(ids), cnt)

\* Roots without the two sorts: candidates in declaration order.
RootsUnsorted(nodes, cnt) ==
  LET zero == SelectIds(Ids(nodes), cnt)
  IN  IF Len(zero) = 0 /\ Len(nodes) > 0 THEN <<Ids(nodes)[1]>> ELSE zero

\* roots (as ids): the nodes without incoming edge, sorted; if there is none
\* and there are nodes, the first node of the sorted node list.
Roots(nodes, cnt) ==
  LET zero == Sort(SelectIds(Ids(nodes), cnt))
  IN  IF Len(zero) = 0 /\ Len(nodes) > 0 THEN <<Sort(Ids(nodes))[1]>> ELSE zero

\* An entry of the queue; `from` is the node whose edge pushed it (<<>> for
\* the root), kept to tell through which edge a node was first reached.
Entry(id, level, from) == [id |-> id, level |-> level, from |-> from]

\* A queue that starts with every root candidate.
InitialQueueAllRoots(rs) == [i \in DOMAIN rs |-> Entry(rs[i], 0, <<>>)]

\* const queue = [{ id: roots[0].id, level: 0 }]
InitialQueue(rs) == <<Entry(rs[1], 0, <<>>)>>

\* A shift that leaves the head in the queue.
ShiftKeepsHead(q) == q

\* queue.shift(): what stays in the queue
Shift(q) == Tail(q)

\* A push at the front of the queue, which makes it a stack.
PushFront(q, entries) == entries \o q

\* queue.push(...) for each entry in turn
Push(q, entries) == q \o entries

RECURSIVE ChildrenUnguarded(_, _, _, _)
\* Children without the test of the visited set.
ChildrenUnguarded(edges, id, level, seen) ==
  IF edges = <<>> THEN <<>>
  ELSE (IF Head(edges).source = id
          THEN <<Entry(Head(edges).target, level + 1, id)>> ELSE <<>>)
       \o ChildrenUnguarded(Tail(edges), id, level, seen)

RECURSIVE Children(_, _, _, _)
\* edges.forEach(e => { if (e.source === id && !visited.has(e.target)) queue.push(...) })
Children(edges, id, level, seen) ==
  IF edges = <<>> THEN <<>>
  ELSE (IF Head(edges).source = id /\ Head(edges).target \notin seen
          THEN <<Entry(Head(edges).target, level + 1, id)>> ELSE <<>>)
       \o Children(Tail(edges), id, level, seen)

\* FillLevels putting the nodes that were not reached below the deepest level.
FillLevelsBelow(lv, nodes) ==
  [x \in DOMAIN lv \cup Range(Ids(nodes)) |->
     IF x \in DOMAIN lv THEN lv[x] ELSE Cardinality(Range(lv))]

\* nodes.forEach(node => { if (!levels.has(node.id)) levels.set(node.id, 0) })
FillLevels(lv, nodes) ==
  [x \in DOMAIN lv \cup Range(Ids(nodes)) |-> IF x \in DOMAIN lv THEN lv[x] ELSE 0]

\* Level groups with the ids of each level in descending order.
LevelGroupsDescending(lv) ==
  [l \in Range(lv) |->
     LET s == Sort(SetToSeq({id \in DOMAIN lv : lv[id] = l}))
     IN  [i \in 1..Len(s) |-> s[Len(s) + 1 - i]]]

\* levelGroups after nodeIds.sort(): for each level in use, its ids ascending.
\* (The default sort compares UTF-16 code units; on capital letters that is
\* the order of localeCompare.)
LevelGroups(lv) ==
  [l \in Range(lv) |-> Sort(SetToSeq({id \in DOMAIN lv : lv[id] = l}))]

\* An index that is 0 for every id.
IndexAlwaysZero(seq, id) == 0

\* nodesInLevel.indexOf(id), 0-based, -1 when absent
IndexOf(seq, id) ==
  IF \E i \in DOMAIN seq : seq[i] = id
    THEN (CHOOSE i \in DOMAIN seq : seq[i] = id /\ \A j \in 1..(i - 1) : seq[j] # id) - 1
    ELSE -1

horizontalSpacing == 300
verticalSpacing == 200
centerX == 600
topOffset == 80

\* Positions with the vertical step taken from the horizontal spacing.
PositionNodesSwapped(nodes, lv, groups) ==
  [i \in DOMAIN nodes |->
     LET level         == IF nodes[i].id \in DOMAIN lv THEN lv[nodes[i].id] ELSE 0
         nodesInLevel  == IF level \in DOMAIN groups THEN groups[level] ELSE <<>>
         indexInLevel  == IndexOf(nodesInLevel, nodes[i].id)
         totalWidth    == (Len(nodesInLevel) - 1) * horizontalSpacing
         startX        == centerX - (totalWidth \div 2)
     IN  [nodes[i] EXCEPT !.x = startX + (indexInLevel * horizontalSpacing),
                          !.y = topOffset + (level * horizontalSpacing)]]

\* nodes.map(node => ({...node, position: {x, y}}))
PositionNodes(nodes, lv, groups) ==
  [i \in DOMAIN nodes |->
     LET level         == IF nodes[i].id \in DOMAIN lv THEN lv[nodes[i].id] ELSE 0
         nodesInLevel  == IF level \in DOMAIN groups THEN groups[level] ELSE <<>>
         indexInLevel  == IndexOf(nodesInLevel, nodes[i].id)
         totalWidth    == (Len(nodesInLevel) - 1) * horizontalSpacing
         startX        == centerX - (totalWidth \div 2)
     IN  [nodes[i] EXCEPT !.x = startX + (indexInLevel * horizontalSpacing),
                          !.y = topOffset + (level * verticalSpacing)]]

\* ----------------------------------------------------------------- inputs

MaxLines == 2
MaxEdgeLines == 2
MaxRuns == 2

A == <<"A">>
B == <<"B">>
C == <<"C">>
X == <<"X">>
Y == <<"Y">>

Sq(id, label) == id \o <<"[">> \o label \o <<"]">>
Di(id, label) == id \o <<"{", "{">> \o label \o <<"}", "}">>
Arrow == <<"-", "-", ">">>
Sp == <<" ">>
Bar(label) == <<"|">> \o label \o <<"|">>

One_ == <<"O", "n", "e">>
Two_ == <<"T", "w", "o">>
Ok_  == <<"O", "k", "?">>
Yes_ == <<"y", "e", "s">>

\* Lines in the syntactic variants the extraction distinguishes.
LineCorpus ==
  { flowchart \o Sp \o <<"T", "D">>,                        \* header
    Sp,                                                      \* blank
    Sq(A, One_) \o Sp \o Arrow \o Sp \o Sq(B, Two_),         \* pattern 2
    Sq(A, One_) \o Sp \o Arrow \o Bar(Yes_) \o Sp \o Di(C, Ok_), \* pattern 1
    B \o Sp \o Arrow \o Sp \o Di(C, Ok_),                    \* pattern 3
    A \o Arrow \o A,                                         \* pattern 4
    Sq(A, Two_),                                             \* one declaration
    Sq(A, One_) \o Sp \o Di(A, Two_),                        \* both shapes, one id
    Sq(X, One_) \o Sp \o Sq(Y, Two_),                        \* declarations only
    B \o Arrow \o A \o Sp \o A \o Sp \o Arrow \o Sp \o Sq(C, One_),  \* 4 left of 3
    C \o Arrow \o A \o Sp \o Sq(A, One_) \o Sp \o Arrow \o Bar(Yes_) \o Sq(B, Two_),
                                                             \* 4 left of 1
    <<"]">> \o A \o <<"[", "{">>,                            \* unmatched brackets
    Sq(A, One_) \o Sp \o Arrow \o Sp \o B }                  \* no pattern

\* Graphs: one line of declarations, then bare edges over A, B, C.
DeclLines ==
  { Sq(B, One_) \o Sp \o Sq(A, One_) \o Sp \o Sq(C, One_),
    Sq(B, One_) \o Sp \o Sq(A, One_),
    Di(C, One_) \o Sp \o Sq(B, One_) }

EdgeLines == { s \o Arrow \o t : s \in {A, B, C}, t \in {A, B, C} }

SeqsUpTo(S, n) == UNION { [1..k -> S] : k \in 0..n }

RECURSIVE JoinLines(_)
JoinLines(ls) ==
  IF ls = <<>> THEN <<>>
  ELSE IF Len(ls) = 1 THEN ls[1]
  ELSE ls[1] \o <<"\n">> \o JoinLines(Tail(ls))

ScenarioA ==
  JoinLines(<< flowchart,
               Sq(A, <<"S","t","a","r","t">>) \o Sp \o Arrow \o Sp
                 \o Sq(B, <<"P","r","o","c","e","s","s">>),
               B \o Sp \o Arrow \o Sp \o Di(C, <<"D","e","c","i","d","e","?">>) >>)
ScenarioB == Sq(X, <<"F","o","o">>) \o Sp \o Sq(Y, <<"B","a","r">>)
ScenarioC == <<>>
ScenarioD == JoinLines(<< Sq(A, One_), Sq(A, Two_), A \o Arrow \o A >>)

\* C is reached from A directly and through B.
Reconverge ==
  JoinLines(<< Sq(B, One_) \o Sp \o Sq(A, One_) \o Sp \o Sq(C, One_),
               A \o Arrow \o B, B \o Arrow \o C, A \o Arrow \o C >>)

\* Nine declarations on nine lines, the third a decision node, and no edge.
NineNodes ==
  JoinLines([i \in 1..9 |->
               IF i = 3 THEN Di(<<UpperSeq[i]>>, Ok_) ELSE Sq(<<UpperSeq[i]>>, One_)])

Inputs ==
  { JoinLines(ls) : ls \in SeqsUpTo(LineCorpus, MaxLines) }
  \cup { JoinLines(<<d>> \o es) : d \in DeclLines, es \in SeqsUpTo(EdgeLines, MaxEdgeLines) }
  \cup { ScenarioA, ScenarioB, ScenarioC, ScenarioD, Reconverge, NineNodes }

\* ------------------------------------------------------------------ state

VARIABLES
  src,            \* the diagram source handed to parseMermaidToFlow
  runs,           \* how many times it has been invoked on src
  pc,             \* "idle", "parse", "fallback", "convert", "layout", "bfs",
                  \* "done" (returned) or "thrown"; "viewed" once the
                  \* explanation viewer has compiled the same source
  lines, lineIdx, \* the filtered lines and how many the forEach has processed
  nodeMap, nodeOrder, edgeList,
  flowNodes, flowEdges,
  incomingCount, roots, queue, visited, levels, levelGroups,
  parent,         \* for each visited node but the root, the source of the edge
                  \* whose queue entry made it visited
  visitOrder,     \* the ids in the order visited.add ran for them
  result,         \* what the invocation returned, or that it threw
  prev,           \* result and levels of the invocation before this one
  viewed,         \* what the explanation viewer's parseMermaidToFlow returned
  page            \* the workflow page: the React state its effect reads and
                  \* writes, the last toast, whether the effect is due

vars ==
  << src, runs, pc, lines, lineIdx, nodeMap, nodeOrder, edgeList, flowNodes,
     flowEdges, incomingCount, roots, queue, visited, levels, levelGroups,
     parent, visitOrder, result, prev, viewed, page >>

NoResult == [kind |-> "none", nodes |-> <<>>, edges |-> <<>>]
Thrown   == [kind |-> "throw", nodes |-> <<>>, edges |-> <<>>]
\* A return that loses the edges.
ReturnedWithoutEdges(nodes, edges) == [kind |-> "return", nodes |-> nodes, edges |-> <<>>]
Returned(nodes, edges) == [kind |-> "return", nodes |-> nodes, edges |-> edges]

EmptyMap == [x \in {} |-> 0]

\* ------------------------------------------------ the compiler as a call

RECURSIVE ParseLines(_, _, _, _)
\* lines.forEach(line => {...}): nodeMap, nodeOrder and edgeList after it.
ParseLines(ls, map, order, edges) ==
  IF ls = <<>> THEN [map |-> map, order |-> order, edges |-> edges]
  ELSE LET trimmedLine == Trim(Head(ls))
           map2        == ExtractNodes(map, trimmedLine)
       IN  ParseLines(Tail(ls), map2, PushNew(order, map2, Len(map)),
                      edges \o EdgeOfLine(trimmedLine))

RECURSIVE Bfs(_, _, _, _)
\* The while loop run until the queue is empty: the levels it set.
Bfs(q, seen, lv, edges) ==
  IF q = <<>> THEN lv
  ELSE LET head == Head(q)
       IN  IF head.id \in seen THEN Bfs(Shift(q), seen, lv, edges)
           ELSE Bfs(Push(Shift(q),
                         Children(edges, head.id, head.level, seen \cup {head.id})),
                    seen \cup {head.id},
                    [x \in DOMAIN lv \cup {head.id} |->
                       IF x = head.id THEN head.level ELSE lv[x]],
                    edges)

\* applyHierarchicalLayout(nodes, edges): the positioned nodes; it is called
\* only where roots is not empty (roots[0].id throws otherwise).
applyHierarchicalLayout(nodes, edges) ==
  LET rs == Roots(nodes, IncomingCount(nodes, edges))
      lv == FillLevels(Bfs(InitialQueue(rs), {}, EmptyMap, edges), nodes)
  IN  PositionNodes(nodes, lv, LevelGroups(lv))

\* parseMermaidToFlow(mermaidCode) of the workflow page, as one call.
parseMermaidToFlow(mermaidCode) ==
  LET p  == ParseLines(SourceLines(mermaidCode), <<>>, <<>>, <<>>)
      fn == FlowNodes(p.map)
      fe == FlowEdges(Fallback(p.edges, p.order))
  IN  IF Roots(fn, IncomingCount(fn, fe)) = <<>> THEN Thrown
      ELSE Returned(applyHierarchicalLayout(fn, fe), fe)

\* ------------------------------------------- the explanation viewer's copy

RECURSIVE ExplainerLines(_, _, _, _)
\* lines.forEach(line => {...}) of the viewer's copy, whose body is that of
\* the workflow page's.
ExplainerLines(ls, map, order, edges) ==
  IF ls = <<>> THEN [map |-> map, order |-> order, edges |-> edges]
  ELSE LET trimmedLine == Trim(Head(ls))
           map2        == ExtractNodes(map, trimmedLine)
       IN  ExplainerLines(Tail(ls), map2, PushNew(order, map2, Len(map)),
                          edges \o EdgeOfLine(trimmedLine))

RECURSIVE ExplainerYUniform(_, _)
\* A yPosition that grows by 150 after every node.
ExplainerYUniform(map, i) ==
  IF i = 1 THEN 0 ELSE ExplainerYUniform(map, i - 1) + 150

RECURSIVE ExplainerY(_, _)
\* yPosition when the i-th entry of nodeMap is reached: 0 at first, then
\* += 200 after a diamond and += 150 after a rectangle.
ExplainerY(map, i) ==
  IF i = 1 THEN 0
  ELSE ExplainerY(map, i - 1) + (IF map[i - 1].isDiamond THEN 200 ELSE 150)

\* Viewer nodes that all take the first colour.
ExplainerFlowNodesOneColour(map) ==
  [i \in DOMAIN map |->
     [id |-> map[i].id, label |-> map[i].label, isDiamond |-> map[i].isDiamond,
      color |-> NODE_COLORS[1],
      x |-> IF map[i].isDiamond THEN 250 ELSE 200, y |-> ExplainerY(map, i)]]

\* nodeMap.forEach((data, id) => flowNodes.push(...)) of the viewer's copy
\* (its NODE_COLORS is the palette of the workflow page).
ExplainerFlowNodes(map) ==
  [i \in DOMAIN map |->
     [id |-> map[i].id, label |-> map[i].label, isDiamond |-> map[i].isDiamond,
      color |-> NODE_COLORS[((i - 1) % Len(NODE_COLORS)) + 1],
      x |-> IF map[i].isDiamond THEN 250 ELSE 200, y |-> ExplainerY(map, i)]]

\* parseMermaidToFlow(mermaidCode) of the explanation viewer.
ExplainerParseMermaidToFlow(mermaidCode) ==
  IF mermaidCode = <<>> THEN Returned(<<>>, <<>>)
  ELSE LET p == ExplainerLines(SourceLines(mermaidCode), <<>>, <<>>, <<>>)
       IN  Returned(ExplainerFlowNodes(p.map), FlowEdges(Fallback(p.edges, p.order)))

\* ------------------------------------------------------ the workflow page

NoToast     == "none"
ErrorToast  == "Failed to parse workflow diagram"
AppliedToast == "Changes applied!"

\* The value of `called` when the effect did not call the compiler.
NotCalled == <<"not called">>

\* The component's state at mount. `pending` says that the effect is due (a
\* dependency changed since it last ran); `called` is what the last run of
\* the effect passed to parseMermaidToFlow.
InitialPage ==
  [step |-> "input", mermaidCode |-> <<>>, editedCode |-> <<>>,
   isEditing |-> FALSE, nodes |-> <<>>, edges |-> <<>>,
   toast |-> NoToast, pending |-> TRUE, called |-> NotCalled]

\* The dependency array [mermaidCode, editedCode, isEditing, step].
Deps(pg) == <<pg.mermaidCode, pg.editedCode, pg.isEditing, pg.step>>

\* The state after a handler's setters: the effect is due if a dependency
\* changed.
Render(old, new) ==
  [new EXCEPT !.pending = old.pending \/ Deps(new) # Deps(old)]

Init ==
  /\ src \in Inputs
  /\ runs = 0
  /\ pc = "idle"
  /\ lines = <<>> /\ lineIdx = 0
  /\ nodeMap = <<>> /\ nodeOrder = <<>> /\ edgeList = <<>>
  /\ flowNodes = <<>> /\ flowEdges = <<>>
  /\ incomingCount = EmptyMap /\ roots = <<>> /\ queue = <<>>
  /\ visited = {} /\ levels = EmptyMap /\ levelGroups = EmptyMap
  /\ parent = EmptyMap /\ visitOrder = <<>>
  /\ result = NoResult
  /\ prev = [result |-> NoResult, levels |-> EmptyMap]
  /\ viewed = NoResult
  /\ page = InitialPage

\* An edge list that outlives the invocation that filled it.
StaleEdgeList(old) == old

\* const edgeList = []: the edge list a new invocation starts from, whatever
\* the one before left.
FreshEdgeList(old) == <<>>

\* parseMermaidToFlow is called: its locals are created, the source is split.
Invoke ==
  /\ UNCHANGED << viewed, page >>
  /\ pc \in {"idle", "done", "thrown"}
  /\ runs < MaxRuns
  /\ runs' = runs + 1
  /\ prev' = [result |-> result, levels |-> levels]
  /\ lines' = SourceLines(src) /\ lineIdx' = 0
  /\ nodeMap' = <<>> /\ nodeOrder' = <<>> /\ edgeList' = FreshEdgeList(edgeList)
  /\ flowNodes' = <<>> /\ flowEdges' = <<>>
  /\ incomingCount' = EmptyMap /\ roots' = <<>> /\ queue' = <<>>
  /\ visited' = {} /\ levels' = EmptyMap /\ levelGroups' = EmptyMap
  /\ parent' = EmptyMap /\ visitOrder' = <<>>
  /\ result' = NoResult
  /\ pc' = "parse"
  /\ UNCHANGED src

\* One call of the lines.forEach callback.
ParseLine ==
  /\ UNCHANGED << viewed, page >>
  /\ pc = "parse" /\ lineIdx < Len(lines)
  /\ LET trimmedLine == Trim(lines[lineIdx + 1])
         map2        == ExtractNodes(nodeMap, trimmedLine)
     IN  /\ nodeMap' = map2
         /\ nodeOrder' = PushNew(nodeOrder, map2, Len(nodeMap))
         /\ edgeList' = edgeList \o EdgeOfLine(trimmedLine)
  /\ lineIdx' = lineIdx + 1
  /\ UNCHANGED << src, runs, pc, lines, flowNodes, flowEdges, incomingCount,
                  roots, queue, visited, levels, levelGroups, parent,
                  visitOrder, result, prev >>

\* The fallback after the loop.
SynthesizeEdges ==
  /\ UNCHANGED << viewed, page >>
  /\ pc = "parse" /\ lineIdx = Len(lines)
  /\ edgeList' = Fallback(edgeList, nodeOrder)
  /\ pc' = "convert"
  /\ UNCHANGED << src, runs, lines, lineIdx, nodeMap, nodeOrder, flowNodes,
                  flowEdges, incomingCount, roots, queue, visited, levels,
                  levelGroups, parent, visitOrder, result, prev >>

\* The React Flow nodes and edges are built.
Convert ==
  /\ UNCHANGED << viewed, page >>
  /\ pc = "convert"
  /\ flowNodes' = FlowNodes(nodeMap)
  /\ flowEdges' = FlowEdges(edgeList)
  /\ pc' = "layout"
  /\ UNCHANGED << src, runs, lines, lineIdx, nodeMap, nodeOrder, edgeList,
                  incomingCount, roots, queue, visited, levels, levelGroups,
                  parent, visitOrder, result, prev >>

\* applyHierarchicalLayout up to the queue's construction, when there is a root.
FindRoots ==
  /\ UNCHANGED << viewed, page >>
  /\ pc = "layout"
  /\ LET cnt == IncomingCount(flowNodes, flowEdges)
         rs  == Roots(flowNodes, cnt)
     IN  /\ rs # <<>>
         /\ incomingCount' = cnt
         /\ roots' = rs
         /\ queue' = InitialQueue(rs)
  /\ pc' = "bfs"
  /\ UNCHANGED << src, runs, lines, lineIdx, nodeMap, nodeOrder, edgeList,
                  flowNodes, flowEdges, visited, levels, levelGroups, parent,
                  visitOrder, result, prev >>

\* With no node, roots is empty and roots[0].id throws a TypeError, which
\* leaves applyHierarchicalLayout and parseMermaidToFlow.
RootsThrow ==
  /\ UNCHANGED << viewed, page >>
  /\ pc = "layout"
  /\ LET cnt == IncomingCount(flowNodes, flowEdges)
     IN  /\ Roots(flowNodes, cnt) = <<>>
         /\ incomingCount' = cnt
  /\ roots' = <<>>
  /\ result' = Thrown
  /\ pc' = "thrown"
  /\ UNCHANGED << src, runs, lines, lineIdx, nodeMap, nodeOrder, edgeList,
                  flowNodes, flowEdges, queue, visited, levels, levelGroups,
                  parent, visitOrder, prev >>

\* One iteration of the while loop: queue.shift(), then either `continue`
\* or visit the node and push its unvisited targets.
BfsStep ==
  /\ UNCHANGED << viewed, page >>
  /\ pc = "bfs" /\ queue # <<>>
  /\ LET head == Head(queue)
     IN  IF head.id \in visited
           THEN /\ queue' = Shift(queue)
                /\ UNCHANGED << visited, levels, parent, visitOrder >>
           ELSE /\ visited' = visited \cup {head.id}
                /\ levels' = [x \in DOMAIN levels \cup {head.id} |->
                                IF x = head.id THEN head.level ELSE levels[x]]
                /\ visitOrder' = Append(visitOrder, head.id)
                /\ parent' = IF head.from = <<>> THEN parent
                             ELSE [x \in DOMAIN parent \cup {head.id} |->
                                     IF x = head.id THEN head.from ELSE parent[x]]
                /\ queue' = Push(Shift(queue),
                                 Children(flowEdges, head.id, head.level, visited'))
  /\ UNCHANGED << src, runs, pc, lines, lineIdx, nodeMap, nodeOrder, edgeList,
                  flowNodes, flowEdges, incomingCount, roots, levelGroups,
                  result, prev >>

\* The queue is empty: the remaining nodes get level 0, the levels are
\* grouped and sorted, the nodes are positioned, and parseMermaidToFlow
\* returns { nodes: layoutNodes, edges: flowEdges }.
PositionAndReturn ==
  /\ UNCHANGED << viewed, page >>
  /\ pc = "bfs" /\ queue = <<>>
  /\ levels' = FillLevels(levels, flowNodes)
  /\ levelGroups' = LevelGroups(levels')
  /\ result' = Returned(PositionNodes(flowNodes, levels', levelGroups'), flowEdges)
  /\ pc' = "done"
  /\ UNCHANGED << src, runs, lines, lineIdx, nodeMap, nodeOrder, edgeList,
                  flowNodes, flowEdges, incomingCount, roots, queue, visited,
                  parent, visitOrder, prev >>

\* The explanation viewer is opened on the same diagram source: its
\* parseMermaidToFlow runs from the call to the return.
ExplainerView ==
  /\ pc \in {"done", "thrown"}
  /\ viewed' = ExplainerParseMermaidToFlow(src)
  /\ pc' = "viewed"
  /\ UNCHANGED << src, runs, lines, lineIdx, nodeMap, nodeOrder, edgeList,
                  flowNodes, flowEdges, incomingCount, roots, queue, visited,
                  levels, levelGroups, parent, visitOrder, result, prev, page >>

Next ==
  \/ Invoke
  \/ ParseLine
  \/ SynthesizeEdges
  \/ Convert
  \/ FindRoots
  \/ RootsThrow
  \/ BfsStep
  \/ PositionAndReturn
  \/ ExplainerView

Spec == Init /\ [][Next]_vars

\* The step that leaves the while loop: PositionAndReturn, seen through pc.
LeaveLoop == pc = "bfs" /\ queue = <<>> /\ pc' = "done"

\* The call runs to its end: the while loop takes its next iteration as long
\* as the queue is not empty, and the code after the loop follows it.
FairSpec == Spec /\ WF_vars(BfsStep) /\ WF_pc(LeaveLoop)

\* ------------------------------------------- the workflow page's handlers

\* Diagram sources the backend serves (generated or saved): a diagram that
\* compiles, one with a decision, and one without any declaration, on which
\* the compiler throws.
ServedCodes == { ScenarioA, Di(A, Ok_) \o Sp \o Sq(B, One_), A \o Arrow \o B }

\* What the textarea can hold after a change: any of these, or nothing.
TypedCodes == ServedCodes \cup { ScenarioB, <<>> }

\* The compiler's variables, which the page's handlers do not touch.
compiler ==
  << src, runs, pc, lines, lineIdx, nodeMap, nodeOrder, edgeList, flowNodes,
     flowEdges, incomingCount, roots, queue, visited, levels, levelGroups,
     parent, visitOrder, result, prev, viewed >>

\* generateWorkflow, the request having succeeded with mermaid_code = c (a
\* failed request only raises an alert). Its button is on the input step.
generateWorkflow(c) ==
  /\ ~page.pending /\ page.step = "input"
  /\ page' = Render(page, [page EXCEPT !.mermaidCode = c, !.editedCode = c,
                                        !.step = "preview"])
  /\ UNCHANGED compiler

\* loadPastWorkflow, the request having succeeded with wf.mermaid_code = c (a
\* failed request only raises an alert). The list of past workflows is
\* opened from the input step.
loadPastWorkflow(c) ==
  /\ ~page.pending /\ page.step = "input"
  /\ page' = Render(page, [page EXCEPT !.mermaidCode = c, !.editedCode = c,
                                        !.step = "preview"])
  /\ UNCHANGED compiler

\* resetAll, whose button is on the preview step.
resetAll ==
  /\ ~page.pending /\ page.step = "preview"
  /\ page' = Render(page, [page EXCEPT !.step = "input", !.mermaidCode = <<>>,
                                        !.isEditing = FALSE, !.editedCode = <<>>])
  /\ UNCHANGED compiler

\* toggleEditMode, whose button is on the preview step: leaving edit mode
\* applies the edited code.
toggleEditMode ==
  /\ ~page.pending /\ page.step = "preview"
  /\ page' = Render(page,
                IF page.isEditing
                  THEN [page EXCEPT !.mermaidCode = page.editedCode,
                                    !.toast = AppliedToast, !.isEditing = FALSE]
                  ELSE [page EXCEPT !.isEditing = TRUE])
  /\ UNCHANGED compiler

\* The textarea's onChange, setEditedCode(e.target.value); the textarea is
\* shown on the preview step in edit mode.
setEditedCode(c) ==
  /\ ~page.pending /\ page.step = "preview" /\ page.isEditing
  /\ page' = Render(page, [page EXCEPT !.editedCode = c])
  /\ UNCHANGED compiler

\* The effect on [mermaidCode, editedCode, isEditing, step]: it runs after
\* the mount and after every render in which a dependency changed, before
\* the next event is handled.
Effect ==
  /\ page.pending
  /\ IF page.mermaidCode # <<>> /\ page.step = "preview"
       THEN LET code == IF page.isEditing THEN page.editedCode ELSE page.mermaidCode
                r    == parseMermaidToFlow(code)
            IN  IF r.kind = "return"
                  THEN page' = [page EXCEPT !.nodes = r.nodes, !.edges = r.edges,
                                            !.called = code, !.pending = FALSE]
                  ELSE page' = [page EXCEPT !.toast = ErrorToast,
                                            !.called = code, !.pending = FALSE]
       ELSE page' = [page EXCEPT !.called = NotCalled, !.pending = FALSE]
  /\ UNCHANGED compiler

\* The page alone: the component is mounted and the user acts on it.
PageNext ==
  \/ \E c \in ServedCodes : generateWorkflow(c)
  \/ \E c \in ServedCodes : loadPastWorkflow(c)
  \/ resetAll
  \/ toggleEditMode
  \/ \E c \in TypedCodes : setEditedCode(c)
  \/ Effect

\* The component has just been mounted; no compilation is under way.
PageInit == Init /\ src = <<>>

PageSpec == PageInit /\ [][PageNext]_vars

\* ------------------------------------------------------------- properties

Finished == pc \in {"done", "thrown"}

\* The edge without its React Flow id.
Proj(e) == Edge(e.source, e.target, e.label)

OutEdges == [i \in DOMAIN result.edges |-> Proj(result.edges[i])]

\* C1: for every input string parseMermaidToFlow returns a result object
\* and never throws.
NeverThrows == pc # "thrown"

\* C2: an input that yields no node ends in an empty result, not in an
\* exception; the empty string yields {nodes: [], edges: []}.
ZeroNodesYieldEmptyResult ==
  (Finished /\ nodeMap = <<>>) =>
     /\ result.kind = "return"
     /\ result.nodes = <<>>
     /\ (src = <<>> => result.edges = <<>>)

\* The step of the fallback, and the step that returns.
FallbackStep == pc = "parse" /\ pc' = "convert"
ReturnStep   == pc = "bfs" /\ pc' = "done"

\* The edges returned are the edges of edgeList, in order.
ReturnsEdgeList == ReturnStep => OutEdges' = edgeList

NoSynthesisWithEdges ==
  [][ /\ (FallbackStep /\ edgeList # <<>>) => edgeList' = edgeList
      /\ ReturnsEdgeList ]_vars

\* A declared node that no returned edge touches, although edges exist.
NoSynthesisWitness ==
  /\ pc = "done" /\ result.edges # <<>>
  /\ \E i \in DOMAIN result.nodes :
       \A j \in DOMAIN result.edges :
          /\ result.edges[j].source # result.nodes[i].id
          /\ result.edges[j].target # result.nodes[i].id

\* The declarations in the source, each with its line and its column.
DeclsOfLine(k, trimmedLine) ==
  { [line |-> k, start |-> m.start, id |-> m.caps[1], label |-> Trim(m.caps[2]),
     isDiamond |-> TRUE] : m \in Range(MatchAll(trimmedLine, diamondRegex)) }
  \cup
  { [line |-> k, start |-> m.start, id |-> m.caps[1], label |-> Trim(m.caps[2]),
     isDiamond |-> FALSE] : m \in Range(MatchAll(trimmedLine, squareRegex)) }

Decls == UNION { DeclsOfLine(k, Trim(lines[k])) : k \in DOMAIN lines }

Before(o, p) == o.line < p.line \/ (o.line = p.line /\ o.start < p.start)

FirstDecl(id) ==
  CHOOSE o \in Decls : o.id = id /\ \A p \in Decls : p.id = id => ~Before(p, o)

\* C5: an identifier declared more than once yields one node, with the label
\* and the shape of its first occurrence in source order.
FirstOccurrenceWins ==
  pc = "done" =>
    \A id \in {o.id : o \in Decls} :
       /\ Cardinality({i \in DOMAIN result.nodes : result.nodes[i].id = id}) = 1
       /\ \A i \in DOMAIN result.nodes :
            result.nodes[i].id = id =>
              /\ result.nodes[i].label = FirstDecl(id).label
              /\ result.nodes[i].isDiamond = FirstDecl(id).isDiamond

RECURSIVE ExtractedFrom(_)
\* The edges of the lines k.., in line order.
ExtractedFrom(k) ==
  IF k > Len(lines) THEN <<>>
  ELSE EdgeOfLine(Trim(lines[k])) \o ExtractedFrom(k + 1)

\* C6: the output nodes are in first-seen order (earlier line first, within
\* a line the leftmost declaration first), the output edges in line order.
FirstSeenOrder ==
  pc = "done" =>
    /\ \A i, j \in DOMAIN result.nodes :
         i < j => Before(FirstDecl(result.nodes[i].id), FirstDecl(result.nodes[j].id))
    /\ (ExtractedFrom(1) # <<>> => OutEdges = ExtractedFrom(1))

\* The step that handles line lineIdx + 1, the edges it pushes, and the edge
\* a match of pattern p stands for (its target is the last capture).
LineStep == pc = "parse" /\ lineIdx' = lineIdx + 1
Pushed == SubSeq(edgeList', Len(edgeList) + 1, Len(edgeList'))
Hit(p) == Match(Trim(lines[lineIdx + 1]), p)
Unlabelled(m) == Edge(m.caps[1], m.caps[2], Undefined)

\* The lines of the source that are neither blank nor a header.
KeptLines == {k \in DOMAIN Split(src) : KeepLine(Split(src)[k])}

\* C7: the patterns are tried labelled-bracketed, unlabelled-bracketed,
\* bare-to-bracketed, bare-to-bare; the first that matches gives the line's
\* edge and no later one is applied; a line gives at most one edge, so there
\* are never more extracted edges than non-blank, non-header lines.
FirstPatternWins ==
  [][ LineStep =>
        /\ SubSeq(edgeList', 1, Len(edgeList)) = edgeList
        /\ Len(Pushed) <= 1
        /\ Hit(pattern1).ok =>
             Pushed = <<Edge(Hit(pattern1).caps[1], Hit(pattern1).caps[3],
                             Trim(Hit(pattern1).caps[2]))>>
        /\ (~Hit(pattern1).ok /\ Hit(pattern2).ok) =>
             Pushed = <<Unlabelled(Hit(pattern2))>>
        /\ (~Hit(pattern1).ok /\ ~Hit(pattern2).ok /\ Hit(pattern3).ok) =>
             Pushed = <<Unlabelled(Hit(pattern3))>>
        /\ (~Hit(pattern1).ok /\ ~Hit(pattern2).ok /\ ~Hit(pattern3).ok
              /\ Hit(pattern4).ok) =>
             Pushed = <<Unlabelled(Hit(pattern4))>>
        /\ (~Hit(pattern1).ok /\ ~Hit(pattern2).ok /\ ~Hit(pattern3).ok
              /\ ~Hit(pattern4).ok) =>
             Pushed = <<>>
        /\ Len(edgeList') <= lineIdx'
        /\ lineIdx' <= Cardinality(KeptLines) ]_vars

\* A handled line on which a stronger pattern and pattern 4 both match, with
\* different edges, and whose edge is the stronger pattern's.
FirstPatternWitness ==
  /\ pc = "parse" /\ lineIdx >= 1 /\ edgeList # <<>>
  /\ LET line == Trim(lines[lineIdx])
         m1 == Match(line, pattern1)
         m3 == Match(line, pattern3)
         m4 == Match(line, pattern4)
         last == edgeList[Len(edgeList)]
     IN  /\ m4.ok /\ last # Unlabelled(m4)
         /\ \/ m1.ok /\ last.source = m1.caps[1] /\ last.target = m1.caps[3]
            \/ ~m1.ok /\ m3.ok /\ last = Unlabelled(m3)

LexLeq(a, b) ==
  \/ \E k \in 1..Len(a) :
       /\ k <= Len(b)
       /\ \A j \in 1..(k - 1) : a[j] = b[j]
       /\ Ord(a[k]) < Ord(b[k])
  \/ (Len(a) <= Len(b) /\ \A j \in 1..Len(a) : a[j] = b[j])

LexMin(S) == CHOOSE m \in S : \A n \in S : LexLeq(m, n)

Declared == Range(Ids(flowNodes))

InDegree(n) == Cardinality({j \in DOMAIN flowEdges : flowEdges[j].target = n})

ZeroInDegree == {n \in Declared : InDegree(n) = 0}

\* C9: the in-degree of a node counts the edges whose target it is; the root
\* is the lexically smallest declared node of in-degree 0, or, if there is
\* none, the lexically smallest declared node.
RootChoice ==
  pc \in {"bfs", "done"} =>
    /\ \A n \in Declared : incomingCount[n] = InDegree(n)
    /\ roots[1] = IF ZeroInDegree # {} THEN LexMin(ZeroInDegree) ELSE LexMin(Declared)

\* Every declared node has an incoming edge, one of them a self-loop or from
\* an undeclared source, and the root is not the first declared node.
RootChoiceWitness ==
  /\ pc = "done" /\ ZeroInDegree = {}
  /\ roots[1] # flowNodes[1].id
  /\ \E j \in DOMAIN flowEdges :
       flowEdges[j].source = flowEdges[j].target \/ flowEdges[j].source \notin Declared

\* C10: the traversal starts from the first root only, at level 0, visits
\* each node at most once, and gives a node first reached through the edge
\* (u,v) the level of u plus 1.
BfsTree ==
  pc \in {"bfs", "done"} =>
    /\ \A i, j \in DOMAIN visitOrder : visitOrder[i] = visitOrder[j] => i = j
    /\ Range(visitOrder) = visited
    /\ visitOrder # <<>> => (visitOrder[1] = roots[1] /\ levels[roots[1]] = 0)
    /\ DOMAIN parent = visited \ {roots[1]}
    /\ \A v \in DOMAIN parent :
         /\ parent[v] \in visited
         /\ \E j \in DOMAIN flowEdges :
              flowEdges[j].source = parent[v] /\ flowEdges[j].target = v
         /\ levels[v] = levels[parent[v]] + 1

\* Two root candidates, and a node reached through an edge from the first.
BfsTreeWitness ==
  /\ pc = "done" /\ Len(roots) >= 2
  /\ DOMAIN parent # {}

\* The targets of the edges that leave S.
Targets(S) ==
  {flowEdges[j].target : j \in {i \in DOMAIN flowEdges : flowEdges[i].source \in S}}

RECURSIVE Grow(_, _)
Grow(S, k) == IF k = 0 THEN S ELSE Grow(S \cup Targets(S), k - 1)

\* The ids at most k edges away from the root.
Ball(k) == Grow({roots[1]}, k)

Reachable == Ball(Len(flowEdges))

\* The number of edges on a shortest directed path from the root to v.
Dist(v) == CHOOSE k \in 0..Len(flowEdges) : v \in Ball(k) /\ (k = 0 \/ v \notin Ball(k - 1))

\* C11: the level of every node the traversal reached is its distance from
\* the root, the length of a shortest directed path, also when paths of
\* different lengths lead to it.
LevelIsDistance ==
  pc \in {"bfs", "done"} =>
    /\ visited \subseteq Reachable
    /\ \A v \in visited : levels[v] = Dist(v)
    /\ (pc = "done" => visited = Reachable)

\* A node with edges from two visited nodes of different levels.
LevelIsDistanceWitness ==
  /\ pc = "done"
  /\ \E i, j \in DOMAIN flowEdges :
       /\ flowEdges[i].target = flowEdges[j].target
       /\ flowEdges[i].target \notin {flowEdges[i].source, flowEdges[j].source}
       /\ {flowEdges[i].source, flowEdges[j].source} \subseteq visited
       /\ levels[flowEdges[i].source] < levels[flowEdges[j].source]
       /\ levels[flowEdges[i].target] = levels[flowEdges[i].source] + 1
       /\ levels[flowEdges[j].source] = levels[flowEdges[i].target]

\* C12: every declared node has one level, a non-negative integer, and every
\* declared node that cannot be reached from the root (the other nodes
\* without incoming edge and what is reached only from them) has level 0.
UnreachedAtLevelZero ==
  pc = "done" =>
    /\ Declared \subseteq DOMAIN levels
    /\ \A n \in Declared : levels[n] \in Nat
    /\ \A n \in Declared \ Reachable : levels[n] = 0

\* A second node without incoming edge and a node reached only from it.
UnreachedWitness ==
  /\ pc = "done"
  /\ \E j \in DOMAIN flowEdges :
       /\ flowEdges[j].source \in ZeroInDegree \ {roots[1]}
       /\ flowEdges[j].target \in Declared \ Reachable
       /\ flowEdges[j].target # flowEdges[j].source
       /\ levels[flowEdges[j].target] = 0

\* C13: the layout terminates on every graph with a node, cycles, self-loops,
\* parallel edges and dangling endpoints included: once the traversal has
\* started the queue empties, the positions are returned, and no node was
\* marked visited twice.
LayoutTerminates ==
  (pc = "bfs") ~>
     (/\ pc = "done" /\ queue = <<>>
      /\ \A i, j \in DOMAIN visitOrder : visitOrder[i] = visitOrder[j] => i = j)

\* A finished layout of a graph with a cycle through two visited nodes.
LayoutTerminatesWitness ==
  /\ pc = "done" /\ queue = <<>>
  /\ \E i, j \in DOMAIN flowEdges :
       /\ flowEdges[i].source = flowEdges[j].target
       /\ flowEdges[i].target = flowEdges[j].source
       /\ flowEdges[i].source # flowEdges[i].target
       /\ {flowEdges[i].source, flowEdges[i].target} \subseteq visited

\* The returned nodes of level l, and the declared ids of level l ascending.
Row(l) == {i \in DOMAIN result.nodes : levels[result.nodes[i].id] = l}
DeclaredAt(l) == Sort(SetToSeq({n \in Declared : levels[n] = l}))

\* C14: in a level of k nodes the node at index i of the ascending ids has
\* x = 600 - ((k-1)*300)/2 + i*300, so the nodes drawn at a level lie
\* symmetrically around x = 600.
CenteredLevels ==
  pc = "done" =>
    \A i \in DOMAIN result.nodes :
       LET n   == result.nodes[i]
           row == DeclaredAt(levels[n.id])
       IN  /\ n.x = 600 - (((Len(row) - 1) * 300) \div 2) + (IndexOf(row, n.id) * 300)
           /\ \E j \in Row(levels[n.id]) : result.nodes[j].x = 1200 - n.x

\* C15: every positioned node has y = 80 + level * 200: a greater level has
\* a strictly greater y, an equal level the same y.
YFollowsLevel ==
  pc = "done" =>
    /\ \A i \in DOMAIN result.nodes :
         result.nodes[i].y = 80 + (levels[result.nodes[i].id] * 200)
    /\ \A i, j \in DOMAIN result.nodes :
         /\ levels[result.nodes[i].id] < levels[result.nodes[j].id]
              => result.nodes[i].y < result.nodes[j].y
         /\ levels[result.nodes[i].id] = levels[result.nodes[j].id]
              => result.nodes[i].y = result.nodes[j].y

\* Two nodes of one level below a node of another.
YFollowsLevelWitness ==
  /\ pc = "done"
  /\ \E i, j, k \in DOMAIN result.nodes :
       /\ j # k
       /\ levels[result.nodes[i].id] = 0
       /\ levels[result.nodes[j].id] = 1
       /\ levels[result.nodes[k].id] = 1
       /\ result.nodes[i].y = 80
       /\ result.nodes[j].y = 280

\* The place of id in the order of the visits.
VisitedAt(id) == CHOOSE i \in DOMAIN visitOrder : visitOrder[i] = id

\* C16: within a level the ids are in ascending lexical order whatever the
\* order of declaration and the order of the visits: of two nodes of a level
\* the one with the smaller id has the smaller x.
AscendingWithinLevel ==
  pc = "done" =>
    \A i, j \in DOMAIN result.nodes :
       (/\ levels[result.nodes[i].id] = levels[result.nodes[j].id]
        /\ result.nodes[i].id # result.nodes[j].id
        /\ LexLeq(result.nodes[i].id, result.nodes[j].id))
         => result.nodes[i].x < result.nodes[j].x

\* Two nodes of a level, the one with the greater id declared first and
\* visited first.
AscendingWitness ==
  /\ pc = "done"
  /\ \E i, j \in DOMAIN result.nodes :
       /\ i < j
       /\ levels[result.nodes[i].id] = levels[result.nodes[j].id]
       /\ result.nodes[i].id # result.nodes[j].id
       /\ LexLeq(result.nodes[j].id, result.nodes[i].id)
       /\ {result.nodes[i].id, result.nodes[j].id} \subseteq visited
       /\ VisitedAt(result.nodes[i].id) < VisitedAt(result.nodes[j].id)
       /\ result.nodes[j].x < result.nodes[i].x

\* The nodes and the edges have been built.
Built == pc \in {"layout", "bfs", "done", "thrown"}

Dangling ==
  {j \in DOMAIN flowEdges :
     flowEdges[j].source \notin Declared \/ flowEdges[j].target \notin Declared}

\* C18: an edge with an undeclared source or target does not make the
\* compilation fail: it is returned unchanged and every declared node gets
\* a position.
DanglingEdgesTolerated ==
  (Finished /\ Dangling # {}) =>
     /\ pc = "done"
     /\ result.edges = flowEdges
     /\ OutEdges = edgeList
     /\ Ids(result.nodes) = Ids(flowNodes)
     /\ \A i \in DOMAIN result.nodes : result.nodes[i].y >= topOffset

\* C19: edges are neither deduplicated nor merged: the edges built and the
\* edges returned are those of the edge list, one for one and in order, and
\* the edge list handed to the layout is the edges of the lines, so k lines
\* with the same source and target give k edges, in line order.
NoDeduplication ==
  /\ Built => [i \in DOMAIN flowEdges |-> Proj(flowEdges[i])] = edgeList
  /\ pc = "layout" =>
       LET extracted == ExtractedFrom(1)
       IN  extracted # <<>> => edgeList = extracted
  /\ pc = "done" => OutEdges = edgeList

\* Two lines give the same edge and both edges are returned.
NoDeduplicationWitness ==
  /\ pc = "done"
  /\ OutEdges = ExtractedFrom(1)
  /\ \E i, j \in DOMAIN result.edges :
       /\ i < j
       /\ OutEdges[i] = OutEdges[j]
       /\ OutEdges[i].source # OutEdges[i].target

\* C20: every declaration of a line is extracted, not only the first: when
\* the lines have been handled each declared id of each line is in the node
\* map, and the returned node list has the ids of the node map.
AllDeclarationsExtracted ==
  /\ pc = "convert" =>
       \A k \in DOMAIN lines :
          \A o \in DeclsOfLine(k, Trim(lines[k])) : Has(nodeMap, o.id)
  /\ pc = "done" => Ids(result.nodes) = Ids(nodeMap)

\* A line with two process declarations and a line with a process and a
\* decision declaration, all of them returned.
AllDeclarationsWitness ==
  /\ pc = "done"
  /\ \E k \in DOMAIN lines :
       \E o, p \in DeclsOfLine(k, Trim(lines[k])) :
          /\ o.id # p.id /\ ~o.isDiamond /\ ~p.isDiamond
          /\ {o.id, p.id} \subseteq Range(Ids(result.nodes))
  /\ \E k \in DOMAIN lines :
       \E o, p \in DeclsOfLine(k, Trim(lines[k])) :
          /\ o.id # p.id /\ ~o.isDiamond /\ p.isDiamond
          /\ {o.id, p.id} \subseteq Range(Ids(result.nodes))

\* C21: "flowchart\nA[Start] --> B[Process]\nB --> C{{Decide?}}" compiles to
\* the nodes A (rectangle), B (rectangle), C (decision), the edges A->B and
\* B->C in that order and the levels A:0, B:1, C:2; the header line is
\* discarded.
ScenarioAResult ==
  src = ScenarioA =>
    /\ pc # "thrown"
    /\ pc \notin {"idle"} => Len(lines) = 2
    /\ pc = "done" =>
         /\ [i \in DOMAIN result.nodes |->
               <<result.nodes[i].id, result.nodes[i].isDiamond>>]
              = << <<A, FALSE>>, <<B, FALSE>>, <<C, TRUE>> >>
         /\ OutEdges = << Edge(A, B, Undefined), Edge(B, C, Undefined) >>
         /\ levels = [x \in {A, B, C} |-> IF x = A THEN 0 ELSE IF x = B THEN 1 ELSE 2]

ScenarioAWitness ==
  /\ src = ScenarioA /\ pc = "done"
  /\ Len(Split(src)) = 3
  /\ result.nodes[3].label = <<"D","e","c","i","d","e","?">>
  /\ result.nodes[3].y = 480

\* C22: "A[One]\nA[Two]\nA-->A" compiles to the single node A labelled "One"
\* and the single edge A->A; the layout ends with A at level 0, and the
\* self-loop never puts A in the queue again.
ScenarioDResult ==
  src = ScenarioD =>
    /\ pc # "thrown"
    /\ pc = "bfs" => (visited # {} => queue = <<>>)
    /\ pc = "done" =>
         /\ Len(result.nodes) = 1
         /\ result.nodes[1].id = A
         /\ result.nodes[1].label = One_
         /\ ~result.nodes[1].isDiamond
         /\ OutEdges = << Edge(A, A, Undefined) >>
         /\ levels = [x \in {A} |-> 0]
         /\ visitOrder = <<A>>

ScenarioDWitness ==
  /\ src = ScenarioD /\ pc = "done"
  /\ Len(lines) = 3
  /\ incomingCount[A] = 1
  /\ result.nodes[1].y = 80

\* C24: an output edge has a label exactly when the first pattern produced
\* it, the label being the trimmed text between the bars; the edges of the
\* other three patterns and of the fallback have none.
LabelOnlyFromPattern1 ==
  [][ /\ LineStep =>
           \A i \in DOMAIN Pushed :
              /\ Pushed[i].label # Undefined <=> Hit(pattern1).ok
              /\ Hit(pattern1).ok => Pushed[i].label = Trim(Hit(pattern1).caps[2])
      /\ (FallbackStep /\ edgeList = <<>>) =>
           \A i \in DOMAIN edgeList' : edgeList'[i].label = Undefined
      /\ (pc = "convert" /\ pc' = "layout") =>
           [i \in DOMAIN flowEdges' |-> flowEdges'[i].label]
             = [i \in DOMAIN edgeList |-> edgeList[i].label]
      /\ ReturnStep => result'.edges = flowEdges ]_vars

\* A returned edge labelled "yes" next to a returned edge without label.
LabelWitness ==
  /\ pc = "done"
  /\ \E i, j \in DOMAIN result.edges :
       /\ result.edges[i].label = Yes_
       /\ result.edges[j].label = Undefined

\* C25: after the layout no two declared nodes have the same (x, y),
\* also when disconnected nodes share level 0 with the root.
DistinctPositions ==
  pc = "done" =>
    \A i, j \in DOMAIN result.nodes :
       i # j => <<result.nodes[i].x, result.nodes[i].y>>
                  # <<result.nodes[j].x, result.nodes[j].y>>

\* Two nodes that the traversal did not reach, at level 0 beside the root.
DistinctPositionsWitness ==
  /\ pc = "done"
  /\ \E i, j \in DOMAIN result.nodes :
       /\ i # j
       /\ {result.nodes[i].id, result.nodes[j].id} \cap visited = {}
       /\ result.nodes[i].y = 80 /\ result.nodes[j].y = 80
       /\ result.nodes[i].x # result.nodes[j].x

\* C26: only declared ids take part in the levelling: an undeclared edge
\* target gets no level and no slot in a level group, so the count and the
\* index behind the x of a level range over declared nodes.
OnlyDeclaredLevelled ==
  /\ pc \in {"bfs", "done"} => DOMAIN levels \subseteq Declared
  /\ pc = "done" =>
       \A l \in DOMAIN levelGroups : Range(levelGroups[l]) \subseteq Declared

\* C27: for every edge (u,v) with u reached, v is reached and
\* level(v) <= level(u) + 1; and the levels of the nodes are contiguous: a
\* node at level L > 0 has a node at level L - 1.
LevelsContiguous ==
  pc = "done" =>
    /\ \A j \in DOMAIN flowEdges :
         flowEdges[j].source \in visited =>
           /\ flowEdges[j].target \in visited
           /\ levels[flowEdges[j].target] <= levels[flowEdges[j].source] + 1
    /\ \A n \in Declared :
         levels[n] > 0 => \E m \in Declared : levels[m] = levels[n] - 1

\* C28: applyHierarchicalLayout changes positions only: the nodes returned
\* are the nodes built, in order, with id, label, shape and colour kept and
\* a position set, and the edge list is the one built.
OnlyPositionsChange ==
  pc = "done" =>
    /\ Len(result.nodes) = Len(flowNodes)
    /\ \A i \in DOMAIN result.nodes :
         /\ [result.nodes[i] EXCEPT !.x = 0, !.y = 0] = flowNodes[i]
         /\ <<result.nodes[i].x, result.nodes[i].y>> # <<flowNodes[i].x, flowNodes[i].y>>
    /\ result.edges = flowEdges

\* A layout of several nodes with labelled and unlabelled edges.
OnlyPositionsWitness ==
  /\ pc = "done"
  /\ Len(result.nodes) >= 2 /\ Len(result.edges) >= 2
  /\ \E i \in DOMAIN result.nodes : result.nodes[i].isDiamond
  /\ \E j \in DOMAIN result.edges : result.edges[j].label # Undefined

\* The call form of the compiler and the stepwise one agree: a finished
\* invocation has the outcome that parseMermaidToFlow(src) computes.
CompilerAsCall == Finished => result = parseMermaidToFlow(src)

\* ------------------------------------------------ the two copies (C23, C30)

ViewedNodes == [i \in DOMAIN viewed.nodes |->
                  [id |-> viewed.nodes[i].id, label |-> viewed.nodes[i].label,
                   isDiamond |-> viewed.nodes[i].isDiamond,
                   color |-> viewed.nodes[i].color]]
PageNodes   == [i \in DOMAIN result.nodes |->
                  [id |-> result.nodes[i].id, label |-> result.nodes[i].label,
                   isDiamond |-> result.nodes[i].isDiamond,
                   color |-> result.nodes[i].color]]
ViewedEdges == [i \in DOMAIN viewed.edges |-> Proj(viewed.edges[i])]

\* C23: on every input on which both copies return, the workflow page's and
\* the explanation viewer's parseMermaidToFlow yield the same nodes (ids,
\* labels, shapes, colours, order) and the same edges; only positions differ.
CopiesAgree ==
  (pc = "viewed" /\ result.kind = "return" /\ viewed.kind = "return")
    => /\ ViewedNodes = PageNodes
       /\ ViewedEdges = OutEdges

\* Both copies returned a diagram with a decision, a rectangle and a labelled
\* edge, and they placed some node differently.
CopiesAgreeWitness ==
  /\ pc = "viewed" /\ result.kind = "return" /\ viewed.kind = "return"
  /\ Len(viewed.nodes) >= 3
  /\ \E i, j \in DOMAIN viewed.nodes :
        viewed.nodes[i].isDiamond /\ ~viewed.nodes[j].isDiamond
  /\ \E k \in DOMAIN viewed.edges : viewed.edges[k].label # <<>>
  /\ \E i \in DOMAIN viewed.nodes :
        <<viewed.nodes[i].x, viewed.nodes[i].y>> # <<result.nodes[i].x, result.nodes[i].y>>

EffectStep == page.pending /\ ~page'.pending

\* The source the effect compiles.
CurrentSource == IF page.isEditing THEN page.editedCode ELSE page.mermaidCode

\* When the compilation throws, the displayed nodes and edges stay and only
\* the error toast is raised.
ThrowLeavesDisplay ==
  (page'.called # NotCalled /\ parseMermaidToFlow(page'.called) = Thrown)
    => /\ page'.nodes = page.nodes /\ page'.edges = page.edges
       /\ page'.toast = ErrorToast

\* C29: in a run of the page's effect, a compilation that throws leaves the
\* displayed node and edge lists as they were and raises only the error
\* toast, and with an empty source or a step other than "preview" the
\* compiler is not invoked.
EffectGuarded ==
  [][ EffectStep =>
        /\ ThrowLeavesDisplay
        /\ (CurrentSource = <<>> \/ page.step # "preview")
              => page'.called = NotCalled ]_vars

====
